---- MODULE Spec2Model ----
(***************************************************************************)
(* Thorium DAQ (src/thorium.py): the voltage-sweep controller DaqRunner,   *)
(* the console monitor ui_handler, the waveform parser convert_to_vector   *)
(* and the output writer dump_data.                                        *)
(*                                                                         *)
(* Conventions.                                                            *)
(*  - A Python str is a sequence of one-character strings.                 *)
(*  - An optional value (None or a value) is a sequence of length 0 or 1:  *)
(*    None is <<>>, the value x is <<x>>.                                  *)
(*  - A float is modelled by an integer; the literals of the model's       *)
(*    alphabet that float() accepts are d+ and d+Ed+.                      *)
(***************************************************************************)
EXTENDS Integers, Sequences, FiniteSets, TLC

VARIABLES
    pc,            \* position of the controller thread in DaqRunner.__init__ / get_events
    volt_list,     \* self.volt_list
    num_events,    \* self.num_events
    channels,      \* self.channels (the 4-element mask)
    vi,            \* index of the current element of "for volt in self.volt_list"
    event,         \* loop variable of "for event in range(self.num_events)"
    dt,            \* self.dt
    list_events,   \* DaqRunner.list_events
    stop_queue,    \* queue_stop
    posted_at,     \* how many entries io held when the signal was posted (None before)
    ui_pc,         \* position of the monitor thread in ui_handler
    caen_status,   \* the string the supply answers to status_check
    files,         \* the file system: path -> optional content (sequence of written strings)
    io,            \* the controller's device calls and prints, in program order
    sent,          \* the tokens and separators the scope put into a response
    values,        \* the argument of a stand-alone convert_to_vector call
    result         \* what that call returned (or the exception it raised)

vars == <<pc, volt_list, num_events, channels, vi, event, dt, list_events,
          stop_queue, posted_at, ui_pc, caen_status, files, io, sent, values, result>>

----------------------------------------------------------------------------
(* Bounds of the model *)

MaxTokens == 4     \* tokens of a free-form scope response
MaxSamples == 2    \* samples per channel of a two-channel response
MaxDt == 2         \* timebase values 1..MaxDt
MaxSteps == 2      \* length of the voltage list
MaxEvents == 2     \* num_events
MaxLog == 2        \* events of a log handed to a stand-alone dump_data call

NumChannels == 4   \* [None] * 4

----------------------------------------------------------------------------
(* Python values *)

None == <<>>
NotCalled == <<>>
Some(x) == <<x>>

Digits == <<"0", "1", "2", "3", "4", "5", "6", "7", "8", "9">>
IsDigit(c) == \E i \in 1..10 : Digits[i] = c
DigitVal(c) == (CHOOSE i \in 1..10 : Digits[i] = c) - 1

Whitespace == {" ", "\n", "\t"}

\* sep.join(parts)
RECURSIVE Join(_, _)
Join(parts, sep) ==
    IF parts = <<>> THEN <<>>
    ELSE IF Len(parts) = 1 THEN parts[1]
    ELSE parts[1] \o sep \o Join(Tail(parts), sep)

\* s.split(c) for a one-character separator c: never empty, "" splits to [""]
RECURSIVE SplitAcc(_, _, _)
SplitAcc(s, c, cur) ==
    IF s = <<>> THEN <<cur>>
    ELSE IF Head(s) = c THEN <<cur>> \o SplitAcc(Tail(s), c, <<>>)
    ELSE SplitAcc(Tail(s), c, Append(cur, Head(s)))

Split(s, c) == SplitAcc(s, c, <<>>)

\* sub in s
IsSubstr(sub, s) ==
    \E i \in 0..(Len(s) - Len(sub)) : SubSeq(s, i + 1, i + Len(sub)) = sub

\* s.strip()
RECURSIVE LStrip(_)
LStrip(s) == IF s # <<>> /\ Head(s) \in Whitespace THEN LStrip(Tail(s)) ELSE s

RECURSIVE RStrip(_)
RStrip(s) ==
    IF s # <<>> /\ s[Len(s)] \in Whitespace THEN RStrip(SubSeq(s, 1, Len(s) - 1)) ELSE s

Strip(s) == RStrip(LStrip(s))

\* the value of a non-empty string of decimal digits
RECURSIVE DecVal(_)
DecVal(ds) ==
    IF ds = <<>> THEN 0 ELSE 10 * DecVal(SubSeq(ds, 1, Len(ds) - 1)) + DigitVal(ds[Len(ds)])

AllDigits(s) == s # <<>> /\ \A i \in 1..Len(s) : IsDigit(s[i])

RECURSIVE Pow10(_)
Pow10(n) == IF n = 0 THEN 1 ELSE 10 * Pow10(n - 1)

\* int(s): None stands for ValueError
PyInt(s) == IF AllDigits(s) THEN Some(DecVal(s)) ELSE None

\* float(s): None stands for ValueError
PyFloat(s) ==
    IF AllDigits(s) THEN Some(DecVal(s))
    ELSE IF \E i \in 2..(Len(s) - 1) :
                /\ s[i] \in {"E", "e"}
                /\ AllDigits(SubSeq(s, 1, i - 1))
                /\ AllDigits(SubSeq(s, i + 1, Len(s)))
         THEN LET i == CHOOSE j \in 2..(Len(s) - 1) :
                           /\ s[j] \in {"E", "e"}
                           /\ AllDigits(SubSeq(s, 1, j - 1))
                           /\ AllDigits(SubSeq(s, j + 1, Len(s)))
              IN  Some(DecVal(SubSeq(s, 1, i - 1)) * Pow10(DecVal(SubSeq(s, i + 1, Len(s)))))
         ELSE None

\* str(n) for an int n >= 0
RECURSIVE DecStr(_)
DecStr(n) == IF n < 10 THEN <<Digits[n + 1]>> ELSE Append(DecStr(n \div 10), Digits[(n % 10) + 1])

\* re.sub('[^0-9]', '', s)
StripNonDigits(s) == SelectSeq(s, IsDigit)

\* mutant of PySetItem: an index below 0 is out of range
PySetItem_NoWrap(lst, i, x) ==
    IF i >= 0 /\ i < Len(lst) THEN Some([lst EXCEPT ![i + 1] = x]) ELSE None

\* lst[i] = x with Python's index rule; None stands for IndexError
PySetItem(lst, i, x) ==
    IF i >= 0 /\ i < Len(lst) THEN Some([lst EXCEPT ![i + 1] = x])
    ELSE IF i < 0 /\ i >= -Len(lst) THEN Some([lst EXCEPT ![Len(lst) + i + 1] = x])
    ELSE None

----------------------------------------------------------------------------
(* convert_to_vector *)

\* the locals of convert_to_vector; exc is "" while no exception was raised
ParseStart ==
    [wfms |-> [i \in 1..NumChannels |-> None], cur |-> -1, tidx |-> 0,
     wf |-> <<>>, exc |-> ""]

\* mutant of MarkerEntry: time_idx is not reset at a channel marker
MarkerEntry_NoReset(st, entry) ==
    LET stored == IF st.cur >= 0 THEN PySetItem(st.wfms, st.cur, Some(st.wf))
                  ELSE Some(st.wfms)
        n      == PyInt(StripNonDigits(entry))
    IN  IF stored = None THEN [st EXCEPT !.exc = "IndexError"]
        ELSE LET st1 == IF st.cur >= 0
                        THEN [st EXCEPT !.wfms = stored[1], !.wf = <<>>]
                        ELSE st
             IN  IF n = None THEN [st1 EXCEPT !.exc = "ValueError"]
                 ELSE [st1 EXCEPT !.cur = n[1] - 1]

\* the branch "if ':' in entry"
MarkerEntry(st, entry) ==
    LET stored == IF st.cur >= 0 THEN PySetItem(st.wfms, st.cur, Some(st.wf))
                  ELSE Some(st.wfms)
        n      == PyInt(StripNonDigits(entry))
    IN  IF stored = None THEN [st EXCEPT !.exc = "IndexError"]
        ELSE LET st1 == IF st.cur >= 0
                        THEN [st EXCEPT !.wfms = stored[1], !.wf = <<>>, !.tidx = 0]
                        ELSE st
             IN  IF n = None THEN [st1 EXCEPT !.exc = "ValueError"]
                 ELSE [st1 EXCEPT !.cur = n[1] - 1]

\* mutant of SampleEntry: time_idx advances on a token that is no number too
SampleEntry_CountsJunk(st, entry, cur_dt) ==
    LET volt == PyFloat(Strip(entry))
    IN  IF volt = None THEN [st EXCEPT !.tidx = st.tidx + 1]
        ELSE [st EXCEPT !.wf = Append(st.wf, <<cur_dt * st.tidx, volt[1]>>),
                        !.tidx = st.tidx + 1]

\* the branch "else: try: ... except: pass"
SampleEntry(st, entry, cur_dt) ==
    LET volt == PyFloat(Strip(entry))
    IN  IF volt = None THEN st
        ELSE [st EXCEPT !.wf = Append(st.wf, <<cur_dt * st.tidx, volt[1]>>),
                        !.tidx = st.tidx + 1]

\* the body of "for entry in line.split(' ')"
ParseEntry(st, entry, cur_dt) ==
    IF st.exc # "" THEN st
    ELSE IF IsSubstr(<<":">>, entry) THEN MarkerEntry(st, entry)
    ELSE SampleEntry(st, entry, cur_dt)

RECURSIVE ParseEntries(_, _, _)
ParseEntries(st, entries, cur_dt) ==
    IF entries = <<>> THEN st
    ELSE ParseEntries(ParseEntry(st, Head(entries), cur_dt), Tail(entries), cur_dt)

\* "for line in values.split('\n')"
RECURSIVE ParseLines(_, _, _)
ParseLines(st, lines, cur_dt) ==
    IF lines = <<>> THEN st
    ELSE ParseLines(ParseEntries(st, Split(Head(lines), " "), cur_dt), Tail(lines), cur_dt)

\* "list_channel_wfms[cur_channel] = deepcopy(waveform)"
Finalize(st) ==
    IF st.exc # "" THEN st
    ELSE LET stored == PySetItem(st.wfms, st.cur, Some(st.wf))
         IN  IF stored = None THEN [st EXCEPT !.exc = "IndexError"]
             ELSE [st EXCEPT !.wfms = stored[1]]

\* convert_to_vector(values) with self.dt = cur_dt; vals is an optional string.
\* The result is [exc, wfms]: the exception raised ("" for none) and the list returned.
convert_to_vector(vals, cur_dt) ==
    LET st == IF vals = None THEN ParseStart
              ELSE Finalize(ParseLines(ParseStart, Split(vals[1], "\n"), cur_dt))
    IN  [exc |-> st.exc, wfms |-> IF st.exc = "" THEN st.wfms ELSE <<>>]

----------------------------------------------------------------------------
(* The oscilloscope's side of a waveform response: tokens, and the text they make *)

Marker(n) == [k |-> "marker", n |-> n, v |-> 0]
Num(v) == [k |-> "num", n |-> 0, v |-> v]
Junk == [k |-> "junk", n |-> 0, v |-> 0]

SampleVals == {1, 12}
Seps == {<<" ">>, <<"\n">>}

TokStr(t) ==
    IF t.k = "marker" THEN <<"C">> \o DecStr(t.n) \o <<":">>
    ELSE IF t.k = "num" THEN DecStr(t.v)
    ELSE <<"E", "R", "R">>

\* the tokens, toks[i] and toks[i+1] separated by seps[i]
RECURSIVE Render(_, _)
Render(toks, seps) ==
    IF toks = <<>> THEN <<>>
    ELSE IF Len(toks) = 1 THEN TokStr(toks[1])
    ELSE TokStr(toks[1]) \o seps[1] \o Render(Tail(toks), Tail(seps))

RECURSIVE SeqsOf(_, _)
SeqsOf(S, n) ==
    IF n = 0 THEN {<<>>} ELSE {Append(q, x) : q \in SeqsOf(S, n - 1), x \in S}

SeqsUpTo(S, n) == UNION {SeqsOf(S, k) : k \in 0..n}

FreeTokens == {Marker(1), Marker(3), Junk} \cup {Num(v) : v \in SampleVals}

NumSeqs(n) == SeqsOf({Num(v) : v \in SampleVals}, n)

\* a response with channels 1 and 3 active, n samples each
TwoChannel(n) ==
    {<<Marker(1)>> \o a \o <<Marker(3)>> \o b : a \in NumSeqs(n), b \in NumSeqs(n)}

Responses == SeqsUpTo(FreeTokens, MaxTokens) \cup UNION {TwoChannel(n) : n \in 0..MaxSamples}

----------------------------------------------------------------------------
(* A stand-alone call convert_to_vector(values) of a DaqRunner whose dt is set *)

ParseInit ==
    /\ pc = "done"
    /\ volt_list = <<>>
    /\ num_events = 0
    /\ channels = [i \in 1..NumChannels |-> FALSE]
    /\ vi = 0
    /\ event = 0
    /\ dt \in 1..MaxDt
    /\ list_events = <<>>
    /\ stop_queue = <<>>
    /\ posted_at = None
    /\ ui_pc = "done"
    /\ caen_status = <<>>
    /\ files = <<>>
    /\ io = <<>>
    /\ result = NotCalled
    /\ \/ /\ sent = None
          /\ values = None
       \/ \E toks \in Responses : \E seps \in [1..(Len(toks) - 1) -> Seps] :
             /\ sent = Some([toks |-> toks, seps |-> seps])
             /\ values = Some(Render(toks, seps))

ParseCall ==
    /\ result = NotCalled
    /\ result' = Some(convert_to_vector(values, dt))
    /\ UNCHANGED <<pc, volt_list, num_events, channels, vi, event, dt, list_events,
                   stop_queue, posted_at, ui_pc, caen_status, files, io, sent, values>>

ParseNext == ParseCall

ParseSpec == ParseInit /\ [][ParseNext]_vars

----------------------------------------------------------------------------
(* Strings of the program and of the devices *)

S_ON == <<"O", "N">>
S_OFF == <<"O", "F", "F">>
S_RAMP_UP == <<"R", "A", "M", "P", " ", "U", "P">>
S_RAMP_DOWN == <<"R", "A", "M", "P", " ", "D", "O", "W", "N">>
S_INSPECT == <<":", "I", "N", "S", "P", "E", "C", "T", "?", " ", "S", "I", "M", "P", "L", "E", ";">>
S_ZERO == <<"0">>

\* the supply's answers to status_check
StatusOn == S_ON
StatusOff == S_OFF
StatusRampUp == S_ON \o <<" ">> \o S_RAMP_UP
StatusRampDown == S_ON \o <<" ">> \o S_RAMP_DOWN

\* the run configuration
OutFile == <<"o", "u", "t">>
Labels == {<<"1">>, <<"2">>}
Masks == {<<FALSE, TRUE, FALSE, FALSE>>, <<FALSE, TRUE, FALSE, TRUE>>}

\* s.lower(), over the letters the console commands use
Lower(s) == [i \in 1..Len(s) |-> IF s[i] = "S" THEN "s" ELSE IF s[i] = "X" THEN "x" ELSE s[i]]

\* what the user may type at the prompt
Commands == {<<>>, <<"x">>, <<"s">>, <<"S">>, <<"x", "S">>}

----------------------------------------------------------------------------
(* dump_data *)

\* str(x) of a float with an integral value
FloatStr(x) == DecStr(x) \o <<".", "0">>

\* "if channel": None and the empty list are false
Truthy(slot) == slot # None /\ slot[1] # <<>>

RECURSIVE EntryLines(_)
EntryLines(wf) ==
    IF wf = <<>> THEN <<>>
    ELSE FloatStr(wf[1][1]) \o <<",">> \o FloatStr(wf[1][2]) \o <<"\n">> \o EntryLines(Tail(wf))

\* mutant of ChannelBlock: the header names the channel by its index
ChannelBlock_ZeroBased(event_num, channel_num, slot) ==
    IF slot # None /\ slot[1] # <<>>
    THEN DecStr(event_num) \o <<";", "C", "H">> \o DecStr(channel_num) \o <<"\n">>
         \o EntryLines(slot[1]) \o <<"\n", "\n">>
    ELSE <<>>

\* what the body of "for channel_num, channel in enumerate(event)" writes
ChannelBlock(event_num, channel_num, slot) ==
    IF Truthy(slot)
    THEN DecStr(event_num) \o <<";", "C", "H">> \o DecStr(channel_num + 1) \o <<"\n">>
         \o EntryLines(slot[1]) \o <<"\n", "\n">>
    ELSE <<>>

RECURSIVE EventBlocks(_, _, _)
EventBlocks(event_num, ev, channel_num) ==
    IF channel_num >= Len(ev) THEN <<>>
    ELSE ChannelBlock(event_num, channel_num, ev[channel_num + 1])
         \o EventBlocks(event_num, ev, channel_num + 1)

\* everything dump_data writes for the events log[event_num + 1 ..]
RECURSIVE Serialize(_, _)
Serialize(log, event_num) ==
    IF event_num >= Len(log) THEN <<>>
    ELSE EventBlocks(event_num, log[event_num + 1], 0) \o Serialize(log, event_num + 1)

\* self.output_filename + "_{}V".format(volt)
Path(volt) == OutFile \o <<"_">> \o volt \o <<"V">>

\* mutant of WriteFile: the file is opened for appending
WriteFile_Append(fs, path, text) ==
    [q \in DOMAIN fs \cup {path} |->
        IF q = path THEN (IF path \in DOMAIN fs THEN fs[path] ELSE <<>>) \o text ELSE fs[q]]

\* open(path, 'w') ... write ... close()
WriteFile(fs, path, text) ==
    [q \in DOMAIN fs \cup {path} |-> IF q = path THEN text ELSE fs[q]]

----------------------------------------------------------------------------
(* get_events and get_timebase, and the oscilloscope that answers them *)

\* command_payload
RECURSIVE Payload(_, _)
Payload(mask, channel_number) ==
    IF channel_number >= Len(mask) THEN <<>>
    ELSE (IF mask[channel_number + 1] THEN <<"C">> \o DecStr(channel_number) \o S_INSPECT
          ELSE <<>>)
         \o Payload(mask, channel_number + 1)

\* the channel numbers a command names, in order: one per ';'-terminated sub-command
NamedChannels(cmd) ==
    LET parts == Split(cmd, ";")
        subs  == SubSeq(parts, 1, Len(parts) - 1)
    IN  [i \in 1..Len(subs) |-> DecVal(StripNonDigits(Split(subs[i], ":")[1]))]

\* the scope's answer to a waveform command: for each sub-command, on a line of its
\* own, the marker it named and the samples of the acq-th acquisition
ScopeAnswer(cmd, acq) ==
    LET named == NamedChannels(cmd)
        block(i) == Render(<<Marker(named[i]), Num(acq), Num(acq + 1)>>, <<<<" ">>, <<" ">>>>)
    IN  Join([i \in 1..Len(named) |-> block(i)], <<"\n">>)

\* the scope's answer to "C2:INSPECT? HORIZ_INTERVAL" when its interval is d
TimebaseAnswer(d) ==
    <<"C", "2", ":", "I", "N", "S", "P", " ", "\"", "H", "I", ":", " ">> \o DecStr(d) \o <<" ", "\"">>

\* float(raw_dt.split(":")[2].split(" ")[1]); None stands for an exception
ParseTimebase(raw_dt) ==
    LET a == Split(raw_dt, ":")
    IN  IF Len(a) < 3 THEN None
        ELSE LET b == Split(a[3], " ")
             IN  IF Len(b) < 2 THEN None ELSE PyFloat(b[2])

\* the intervals the scope may be set to when a step queries it
DtChoices == {1, MaxDt}

----------------------------------------------------------------------------
(* The controller thread: DaqRunner.__init__ *)

Call(op, volt, n) == [op |-> op, volt |-> volt, n |-> n]

\* how many waveform queries the scope has answered
Acquired == Len(SelectSeq(io, LAMBDA c : c.op = "wfm"))

Init ==
    /\ pc = "enable"
    /\ volt_list \in SeqsUpTo(Labels, MaxSteps)
    /\ num_events \in 0..MaxEvents
    /\ channels \in Masks
    /\ vi = 0
    /\ event = 0
    /\ dt = 0
    /\ list_events = <<>>
    /\ stop_queue = <<>>
    /\ posted_at = None
    /\ ui_pc = "input"
    /\ caen_status \in {StatusOff, StatusOn}
    /\ files = <<>>
    /\ io = <<>>
    /\ sent = None
    /\ values = None
    /\ result = NotCalled

\* lines 57-58
EnableOutput ==
    /\ pc = "enable"
    /\ caen_status' = IF ~IsSubstr(S_ON, caen_status) THEN StatusOn ELSE caen_status
    /\ pc' = "loop"
    /\ UNCHANGED <<volt_list, num_events, channels, vi, event, dt, list_events,
                   stop_queue, posted_at, ui_pc, files, io, sent, values, result>>

\* mutant of LoopCheck: the loop does not look at the queue
LoopCheck_NoStop ==
    /\ pc = "loop"
    /\ IF vi >= Len(volt_list) THEN pc' = "neutral" /\ vi' = vi
       ELSE vi' = vi + 1 /\ pc' = "set"
    /\ UNCHANGED <<volt_list, num_events, channels, event, dt, list_events,
                   stop_queue, posted_at, ui_pc, caen_status, files, io, sent, values, result>>

\* mutant of LoopCheck: the check takes the signal out of the queue
LoopCheck_Consume ==
    /\ pc = "loop"
    /\ IF vi >= Len(volt_list) THEN pc' = "neutral" /\ vi' = vi /\ stop_queue' = stop_queue
       ELSE /\ vi' = vi + 1
            /\ pc' = IF stop_queue # <<>> THEN "neutral" ELSE "set"
            /\ stop_queue' = IF stop_queue # <<>> THEN Tail(stop_queue) ELSE stop_queue
    /\ UNCHANGED <<posted_at, volt_list, num_events, channels, event, dt, list_events,
                   ui_pc, caen_status, files, io, sent, values, result>>

\* lines 60-62: the next element of volt_list, and the stop check before the step
LoopCheck ==
    /\ pc = "loop"
    /\ IF vi >= Len(volt_list) THEN pc' = "neutral" /\ vi' = vi
       ELSE /\ vi' = vi + 1
            /\ pc' = IF stop_queue # <<>> THEN "neutral" ELSE "set"
    /\ UNCHANGED <<volt_list, num_events, channels, event, dt, list_events,
                   stop_queue, posted_at, ui_pc, caen_status, files, io, sent, values, result>>

\* lines 63-64
SetOutput ==
    /\ pc = "set"
    /\ io' = Append(io, Call("set", volt_list[vi], 0))
    /\ caen_status' = StatusRampUp
    /\ pc' = "ramp_up"
    /\ UNCHANGED <<volt_list, num_events, channels, vi, event, dt, list_events,
                   stop_queue, posted_at, ui_pc, files, sent, values, result>>

\* mutant of PollRampUp: the loop also ends when the stop queue is not empty
PollRampUp_StopAware ==
    /\ pc = "ramp_up"
    /\ pc' = IF IsSubstr(S_RAMP_UP, caen_status) /\ stop_queue = <<>>
             THEN "ramp_up" ELSE "timebase"
    /\ UNCHANGED <<volt_list, num_events, channels, vi, event, dt, list_events,
                   stop_queue, posted_at, ui_pc, caen_status, files, io, sent, values, result>>

\* mutant of PollRampUp: the loop waits for the ON flag to clear
PollRampUp_WrongFlag ==
    /\ pc = "ramp_up"
    /\ pc' = IF IsSubstr(S_ON, caen_status) THEN "ramp_up" ELSE "timebase"
    /\ UNCHANGED <<volt_list, num_events, channels, vi, event, dt, list_events,
                   stop_queue, posted_at, ui_pc, caen_status, files, io, sent, values, result>>

\* lines 65-66: one status_check of the loop
PollRampUp ==
    /\ pc = "ramp_up"
    /\ pc' = IF IsSubstr(S_RAMP_UP, caen_status) THEN "ramp_up" ELSE "timebase"
    /\ UNCHANGED <<volt_list, num_events, channels, vi, event, dt, list_events,
                   stop_queue, posted_at, ui_pc, caen_status, files, io, sent, values, result>>

\* mutant of GetTimebase: an interval already read is kept
GetTimebase_KeepsDt ==
    /\ pc = "timebase"
    /\ \E d \in DtChoices :
         /\ LET parsed == ParseTimebase(TimebaseAnswer(d))
            IN  IF parsed = None THEN pc' = "crashed" /\ dt' = dt /\ event' = event
                ELSE pc' = "capture" /\ dt' = (IF dt = 0 THEN parsed[1] ELSE dt) /\ event' = 0
         /\ io' = Append(io, Call("timebase", volt_list[vi], d))
    /\ UNCHANGED <<volt_list, num_events, channels, vi, list_events,
                   stop_queue, posted_at, ui_pc, caen_status, files, sent, values, result>>

\* line 68; the call is recorded with the interval the scope answered
GetTimebase ==
    /\ pc = "timebase"
    /\ \E d \in DtChoices :
         /\ LET parsed == ParseTimebase(TimebaseAnswer(d))
            IN  IF parsed = None THEN pc' = "crashed" /\ dt' = dt /\ event' = event
                ELSE pc' = "capture" /\ dt' = parsed[1] /\ event' = 0
         /\ io' = Append(io, Call("timebase", volt_list[vi], d))
    /\ UNCHANGED <<volt_list, num_events, channels, vi, list_events,
                   stop_queue, posted_at, ui_pc, caen_status, files, sent, values, result>>

\* mutant of CaptureCheck: the loop does not look at the queue
CaptureCheck_NoStop ==
    /\ pc = "capture"
    /\ pc' = IF event >= num_events THEN "dump" ELSE "query"
    /\ UNCHANGED <<volt_list, num_events, channels, vi, event, dt, list_events,
                   stop_queue, posted_at, ui_pc, caen_status, files, io, sent, values, result>>

\* mutant of CaptureCheck: a seen signal is printed, and the capture goes on
CaptureCheck_NoReturn ==
    /\ pc = "capture"
    /\ IF event >= num_events THEN pc' = "dump" /\ io' = io
       ELSE IF stop_queue # <<>>
            THEN pc' = "query" /\ io' = Append(io, Call("STOPPING DAQ", volt_list[vi], event))
            ELSE pc' = "query" /\ io' = io
    /\ UNCHANGED <<volt_list, num_events, channels, vi, event, dt, list_events,
                   stop_queue, posted_at, ui_pc, caen_status, files, sent, values, result>>

\* mutant of CaptureCheck: the loop makes one pass more than num_events
CaptureCheck_OffByOne ==
    /\ pc = "capture"
    /\ IF event > num_events THEN pc' = "dump" /\ io' = io
       ELSE IF stop_queue # <<>>
            THEN pc' = "dump" /\ io' = Append(io, Call("STOPPING DAQ", volt_list[vi], event))
            ELSE pc' = "query" /\ io' = io
    /\ UNCHANGED <<volt_list, num_events, channels, vi, event, dt, list_events,
                   stop_queue, posted_at, ui_pc, caen_status, files, sent, values, result>>

\* lines 105-108: the head of the capture loop and its stop check
CaptureCheck ==
    /\ pc = "capture"
    /\ IF event >= num_events THEN pc' = "dump" /\ io' = io
       ELSE IF stop_queue # <<>>
            THEN pc' = "dump" /\ io' = Append(io, Call("STOPPING DAQ", volt_list[vi], event))
            ELSE pc' = "query" /\ io' = io
    /\ UNCHANGED <<volt_list, num_events, channels, vi, event, dt, list_events,
                   stop_queue, posted_at, ui_pc, caen_status, files, sent, values, result>>

\* mutant of QueryEvent: the first event of a step starts a new log
QueryEvent_Reset ==
    /\ pc = "query"
    /\ LET cmd == Payload(channels, 0)
           got == convert_to_vector(Some(ScopeAnswer(cmd, Acquired + 1)), dt)
       IN  IF got.exc # "" THEN pc' = "crashed" /\ list_events' = list_events /\ event' = event
           ELSE /\ list_events' = IF event = 0 THEN <<got.wfms>> ELSE Append(list_events, got.wfms)
                /\ event' = event + 1
                /\ pc' = "capture"
    /\ io' = Append(io, Call("wfm", volt_list[vi], 0))
    /\ UNCHANGED <<volt_list, num_events, channels, vi, dt,
                   stop_queue, posted_at, ui_pc, caen_status, files, sent, values, result>>

\* lines 111-120
QueryEvent ==
    /\ pc = "query"
    /\ LET cmd == Payload(channels, 0)
           got == convert_to_vector(Some(ScopeAnswer(cmd, Acquired + 1)), dt)
       IN  IF got.exc # "" THEN pc' = "crashed" /\ list_events' = list_events /\ event' = event
           ELSE /\ list_events' = Append(list_events, got.wfms)
                /\ event' = event + 1
                /\ pc' = "capture"
    /\ io' = Append(io, Call("wfm", volt_list[vi], 0))
    /\ UNCHANGED <<volt_list, num_events, channels, vi, dt,
                   stop_queue, posted_at, ui_pc, caen_status, files, sent, values, result>>

\* line 70
DumpData ==
    /\ pc = "dump"
    /\ files' = WriteFile(files, Path(volt_list[vi]), Serialize(list_events, 0))
    /\ io' = Append(io, Call("dump", volt_list[vi], Len(list_events)))
    /\ pc' = "loop"
    /\ UNCHANGED <<volt_list, num_events, channels, vi, event, dt, list_events,
                   stop_queue, posted_at, ui_pc, caen_status, sent, values, result>>

\* lines 71-72
SetNeutral ==
    /\ pc = "neutral"
    /\ io' = Append(io, Call("set_neutral", S_ZERO, 0))
    /\ caen_status' = StatusRampDown
    /\ pc' = "ramp_down"
    /\ UNCHANGED <<volt_list, num_events, channels, vi, event, dt, list_events,
                   stop_queue, posted_at, ui_pc, files, sent, values, result>>

\* mutant of PollRampDown: the status is asked once and not waited for
PollRampDown_NoWait ==
    /\ pc = "ramp_down"
    /\ pc' = "close_scope"
    /\ io' = Append(io, Call("ramp_down_clear", S_ZERO, 0))
    /\ UNCHANGED <<volt_list, num_events, channels, vi, event, dt, list_events,
                   stop_queue, posted_at, ui_pc, caen_status, files, sent, values, result>>

\* lines 73-74: one status_check of the loop
PollRampDown ==
    /\ pc = "ramp_down"
    /\ IF IsSubstr(S_RAMP_DOWN, caen_status) THEN pc' = "ramp_down" /\ io' = io
       ELSE pc' = "close_scope" /\ io' = Append(io, Call("ramp_down_clear", S_ZERO, 0))
    /\ UNCHANGED <<volt_list, num_events, channels, vi, event, dt, list_events,
                   stop_queue, posted_at, ui_pc, caen_status, files, sent, values, result>>

\* line 75
CloseScope ==
    /\ pc = "close_scope"
    /\ io' = Append(io, Call("close_scope", S_ZERO, 0))
    /\ pc' = "close_caen"
    /\ UNCHANGED <<volt_list, num_events, channels, vi, event, dt, list_events,
                   stop_queue, posted_at, ui_pc, caen_status, files, sent, values, result>>

\* line 76
CloseCaen ==
    /\ pc = "close_caen"
    /\ io' = Append(io, Call("close_caen", S_ZERO, 0))
    /\ pc' = "done"
    /\ UNCHANGED <<volt_list, num_events, channels, vi, event, dt, list_events,
                   stop_queue, posted_at, ui_pc, caen_status, files, sent, values, result>>

\* the supply ends a ramp
RampEnds ==
    /\ caen_status \in {StatusRampUp, StatusRampDown}
    /\ caen_status' = StatusOn
    /\ UNCHANGED <<pc, volt_list, num_events, channels, vi, event, dt, list_events,
                   stop_queue, posted_at, ui_pc, files, io, sent, values, result>>

----------------------------------------------------------------------------
(* The monitor thread: ui_handler *)

\* lines 21-25: one prompt
UiInput ==
    /\ ui_pc = "input"
    /\ \E command \in Commands :
         ui_pc' = IF IsSubstr(<<"s">>, Lower(command)) THEN "put" ELSE "input"
    /\ UNCHANGED <<pc, volt_list, num_events, channels, vi, event, dt, list_events,
                   stop_queue, posted_at, caen_status, files, io, sent, values, result>>

\* mutant of UiPut: posting the signal also empties the event log
UiPut_ClearsLog ==
    /\ ui_pc = "put"
    /\ stop_queue' = Append(stop_queue, "STOP")
    /\ posted_at' = Some(Len(io))
    /\ ui_pc' = "done"
    /\ list_events' = <<>>
    /\ UNCHANGED <<pc, volt_list, num_events, channels, vi, event, dt,
                   caen_status, files, io, sent, values, result>>

\* lines 26-27
UiPut ==
    /\ ui_pc = "put"
    /\ stop_queue' = Append(stop_queue, "STOP")
    /\ posted_at' = Some(Len(io))
    /\ ui_pc' = "done"
    /\ UNCHANGED <<pc, volt_list, num_events, channels, vi, event, dt, list_events,
                   caen_status, files, io, sent, values, result>>

Controller ==
    \/ EnableOutput \/ LoopCheck \/ SetOutput \/ PollRampUp \/ GetTimebase
    \/ CaptureCheck \/ QueryEvent \/ DumpData \/ SetNeutral \/ PollRampDown
    \/ CloseScope \/ CloseCaen

Monitor == UiInput \/ UiPut

Next == Controller \/ Monitor \/ RampEnds

Spec == Init /\ [][Next]_vars

\* the steps of the controller other than the two queries of the scope
ControllerElsewhere ==
    \/ EnableOutput \/ LoopCheck \/ SetOutput \/ PollRampUp
    \/ CaptureCheck \/ DumpData \/ SetNeutral \/ PollRampDown
    \/ CloseScope \/ CloseCaen

\* the queries of the scope return: the controller is at neither query for ever. This
\* is WF_vars(GetTimebase) /\ WF_vars(QueryEvent) written out, each of the two being
\* enabled exactly at its position and always leaving it.
QueryReturns == []<>(pc # "timebase") /\ []<>(pc # "query")

\* the sweep when every device call returns (the controller always takes its next
\* step) and every ramp ends; the monitor may post the signal at any time or never
FairSpec ==
    /\ Init /\ [][Next]_vars
    /\ WF_vars(ControllerElsewhere)
    /\ QueryReturns
    /\ WF_vars(RampEnds)

----------------------------------------------------------------------------
(* A stand-alone call dump_data(volt) of a DaqRunner whose log is set *)

\* a waveform of two samples, as convert_to_vector makes it with dt = 2
TwoSamples == << <<0, 1>>, <<2, 12>> >>

\* the events of the logs: each slot None, an empty waveform or a waveform, at most
\* two slots not None and at most one of them empty (what convert_to_vector returns
\* for responses with two markers, numbers following at least one of them)
LogEvents ==
    {ev \in [1..NumChannels -> {None, Some(<<>>), Some(TwoSamples)}] :
        /\ Cardinality({c \in 1..NumChannels : ev[c] # None}) <= 2
        /\ Cardinality({c \in 1..NumChannels : ev[c] = Some(<<>>)}) <= 1}

\* what the file may hold before the call
StaleText == <<"9", ";", "C", "H", "9", "\n", "7", ".", "0", ",", "7", ".", "0", "\n", "\n", "\n",
               "9", ";", "C", "H", "9", "\n", "7", ".", "0", ",", "7", ".", "0", "\n", "\n", "\n",
               "9", ";", "C", "H", "9", "\n", "7", ".", "0", ",", "7", ".", "0", "\n", "\n", "\n",
               "9", ";", "C", "H", "9", "\n", "7", ".", "0", ",", "7", ".", "0", "\n", "\n", "\n">>

WriterInit ==
    /\ pc = "dump"
    /\ volt_list \in SeqsOf(Labels, 1)
    /\ num_events = 0
    /\ channels = [i \in 1..NumChannels |-> FALSE]
    /\ vi = 1
    /\ event = 0
    /\ dt = 2
    /\ list_events \in SeqsUpTo(LogEvents, MaxLog)
    /\ stop_queue = <<>>
    /\ posted_at = None
    /\ ui_pc = "done"
    /\ caen_status = StatusOn
    /\ files \in {<<>>, WriteFile(<<>>, Path(volt_list[1]), StaleText)}
    /\ io = <<>>
    /\ sent = None
    /\ values = None
    /\ result = NotCalled

WriterNext == DumpData

WriterSpec == WriterInit /\ [][WriterNext]_vars

----------------------------------------------------------------------------
(* Properties of dump_data, checked under WriterSpec *)

\* the (event index, channel index) pairs of a log, events in log order and channels
\* ascending, whose slot satisfies shown
Shown(log, shown(_)) ==
    SelectSeq([k \in 1..(NumChannels * Len(log)) |->
                  <<(k - 1) \div NumChannels, (k - 1) % NumChannels>>],
              LAMBDA x : shown(log[x[1] + 1][x[2] + 1]))

\* the lines of one block: header, one line per sample, the two empty lines
BlockLines(e, c, wf) ==
    <<DecStr(e) \o <<";", "C", "H">> \o DecStr(c + 1)>>
    \o [i \in 1..Len(wf) |-> FloatStr(wf[i][1]) \o <<",">> \o FloatStr(wf[i][2])]
    \o << <<>>, <<>> >>

RECURSIVE LinesOf(_, _)
LinesOf(log, pairs) ==
    IF pairs = <<>> THEN <<>>
    ELSE BlockLines(pairs[1][1], pairs[1][2], log[pairs[1][1] + 1][pairs[1][2] + 1][1])
         \o LinesOf(log, Tail(pairs))

IsPresent(slot) == slot # None
IsNonEmpty(slot) == slot # None /\ Len(slot[1]) >= 1

Written == pc = "loop" /\ Len(io) = 1 /\ io[1].op = "dump"

\* the text of the file the call wrote, cut at its line ends
FileLines == Split(files[Path(volt_list[1])], "\n")

\* C11 as claimed: the file holds, for every slot that is not None, the header line
\* "e;CH(c+1)", one "time,voltage" line per sample and the blank separator, in event
\* and channel order, and nothing else.
C11_BlockPerPresentSlot ==
    Written =>
        /\ DOMAIN files = {Path(volt_list[1])}
        /\ FileLines = LinesOf(list_events, Shown(list_events, IsPresent)) \o << <<>> >>

\* C11 as amended: the same for every slot that holds a waveform of at least one
\* sample; a slot that is None or holds an empty waveform produces no line.
C11_BlockPerNonEmptySlot ==
    Written =>
        /\ DOMAIN files = {Path(volt_list[1])}
        /\ FileLines = LinesOf(list_events, Shown(list_events, IsNonEmpty)) \o << <<>> >>

C11_Witness ==
    /\ Written
    /\ Len(list_events) = 2
    /\ list_events[1] = <<None, Some(TwoSamples), None, None>>
    /\ list_events[2] = <<Some(<<>>), None, None, Some(TwoSamples)>>
    /\ FileLines = << <<"0", ";", "C", "H", "2">>, <<"0", ".", "0", ",", "1", ".", "0">>,
                      <<"2", ".", "0", ",", "1", "2", ".", "0">>, <<>>, <<>>,
                      <<"1", ";", "C", "H", "4">>, <<"0", ".", "0", ",", "1", ".", "0">>,
                      <<"2", ".", "0", ",", "1", "2", ".", "0">>, <<>>, <<>>, <<>> >>

----------------------------------------------------------------------------
(* Properties of the sweep, checked under Spec *)

StepOps == {"set", "timebase", "wfm", "dump"}

ShutdownSeq ==
    <<Call("set_neutral", S_ZERO, 0), Call("ramp_down_clear", S_ZERO, 0),
      Call("close_scope", S_ZERO, 0), Call("close_caen", S_ZERO, 0)>>

Posted == stop_queue # <<>>

\* the positions q <= upto of io that hold a call op
Positions(op, upto) == {q \in 1..upto : io[q].op = op}

CountOp(op, upto) == Cardinality(Positions(op, upto))

IsPrefix(a, b) == Len(a) <= Len(b) /\ SubSeq(b, 1, Len(a)) = a

\* the signal is posted and the controller has not yet made the first check of the loop
PostedBeforeFirstCheck == Posted /\ pc \in {"enable", "loop"} /\ vi = 0

ZeroSteps == \A q \in 1..Len(io) : io[q].op \notin StepOps

\* C1: once the signal is posted before the first check of the sweep loop, no
\* set-voltage of a step, no timebase query, no waveform query and no dump is ever
\* made, whatever the voltage list, and a controller that has finished has made the
\* four shutdown calls once each and nothing else.
C1_StopBeforeStep ==
    [](PostedBeforeFirstCheck =>
         [](/\ ZeroSteps
            /\ list_events = <<>>
            /\ files = <<>>
            /\ IsPrefix(io, ShutdownSeq)
            /\ (pc = "done" => io = ShutdownSeq)))

C1_Witness ==
    /\ pc = "done"
    /\ Posted
    /\ Len(volt_list) = MaxSteps
    /\ num_events = MaxEvents
    /\ io = ShutdownSeq

\* after position p of io nothing but the dump of that step and the shutdown follows
WindsDownAfter(p) ==
    LET rest == SubSeq(io, p + 1, Len(io))
    IN  IsPrefix(rest, <<Call("dump", io[p].volt, CountOp("wfm", p))>> \o ShutdownSeq)

\* C2: when the stop check of a capture iteration sees the signal after k < num_events
\* events of the step (the print "STOPPING DAQ"), the step has made exactly k waveform
\* queries since its timebase query, the log holds exactly the events captured so far,
\* the next call is the dump of that step with that log, and after it only the shutdown
\* follows: no later step is set or captured.
C2_StopMidCapture ==
    \A p \in Positions("STOPPING DAQ", Len(io)) :
        LET k == io[p].n
        IN  /\ k < num_events
            /\ p - k - 1 >= 1
            /\ io[p - k - 1].op = "timebase"
            /\ \A q \in (p - k)..(p - 1) : io[q].op = "wfm"
            /\ Len(list_events) = CountOp("wfm", p)
            /\ WindsDownAfter(p)
            /\ (Len(io) = p => pc = "dump")

C2_Witness ==
    /\ pc = "done"
    /\ Len(volt_list) = 2
    /\ num_events = 2
    /\ \E p \in Positions("STOPPING DAQ", Len(io)) :
         /\ io[p].n = 1
         /\ io[p].volt = volt_list[1]
         /\ io[p + 1] = Call("dump", volt_list[1], 1)
    /\ Len(list_events) = 1

ShutdownOps == {"set_neutral", "ramp_down_clear", "close_scope", "close_caen"}

\* the calls of io that belong to the shutdown
ShutdownCalls == SelectSeq(io, LAMBDA c : c.op \in ShutdownOps)

\* how many shutdown calls the controller has made when it is at pc
ShutdownProgress ==
    CASE pc = "ramp_down" -> 1
      [] pc = "close_scope" -> 2
      [] pc = "close_caen" -> 3
      [] pc = "done" -> 4
      [] OTHER -> 0

ShutdownOrdered ==
    /\ ShutdownCalls = SubSeq(ShutdownSeq, 1, ShutdownProgress)
    /\ SubSeq(io, Len(io) - ShutdownProgress + 1, Len(io)) = ShutdownCalls
    /\ pc # "crashed"

\* C3: in every run the calls after the sweep loop are set-output "0", the end of the
\* RAMP DOWN wait, scope.close(), caen.close(), once each and in this order, with no
\* other call between or after them; the wait ends only on a status without RAMP DOWN.
C3_ShutdownOrdering ==
    /\ []ShutdownOrdered
    /\ [][(pc = "ramp_down" /\ pc' # "ramp_down") =>
            (~IsSubstr(S_RAMP_DOWN, caen_status) /\ pc' = "close_scope")]_vars

C3_Witness ==
    /\ pc = "done"
    /\ Posted
    /\ CountOp("set", Len(io)) = 1
    /\ Len(volt_list) = 2
    /\ SubSeq(io, Len(io) - 3, Len(io)) = ShutdownSeq

AtCheckpoint == pc \in {"loop", "capture"}

\* C4: a checkpoint (the check before a step, the check before a capture iteration)
\* that the controller makes with the signal posted sees it: from a checkpoint reached
\* with the signal posted on, the controller never again is about to set a step's
\* voltage or to query a waveform, and it makes no such call.
C4_StopSeenAtCheckpoint ==
    /\ []((Posted /\ AtCheckpoint) => [](pc \notin {"set", "ramp_up", "timebase", "query"}))
    /\ [][(Len(io') > Len(io) /\ io'[Len(io')].op \in {"set", "wfm"}) =>
            (pc \in {"set", "query"} /\ Len(io') = Len(io) + 1)]_vars

C4_Witness ==
    /\ pc = "done"
    /\ Posted
    /\ Len(volt_list) = 2
    /\ vi = 2
    /\ CountOp("set", Len(io)) = 1
    /\ CountOp("wfm", Len(io)) = num_events
    /\ num_events = 2
    /\ CountOp("STOPPING DAQ", Len(io)) = 0

\* C5: the queue never holds more than one signal, a posted signal is never removed,
\* and no step of the controller changes the queue.
C5_StopSticky ==
    /\ [](Len(stop_queue) <= 1)
    /\ [][Posted => stop_queue' = stop_queue]_vars
    /\ [][pc' # pc => stop_queue' = stop_queue]_vars

C5_Witness ==
    /\ pc = "done"
    /\ ui_pc = "done"
    /\ stop_queue = <<"STOP">>
    /\ CountOp("STOPPING DAQ", Len(io)) = 1

\* the positions in io of the dumps, ascending
DumpsAt == SelectSeq([q \in 1..Len(io) |-> q], LAMBDA q : io[q].op = "dump")

\* the position in io of the i-th dump
DumpPos(i) == DumpsAt[i]

\* the text a dump of the first n events of the log writes
Dumped(n) == Serialize(SubSeq(list_events, 1, n), 0)

\* the file of path p exists and holds text
Holds(p, text) == p \in DOMAIN files /\ files[p] = text

\* C6 as claimed: when the dump of step 2 is made, the file of step 1 still holds
\* what the dump of step 1 wrote, and the file of step 2 holds all events of steps 1, 2.
C6_Step1FileKept ==
    Len(DumpsAt) = 2 =>
        LET d1 == io[DumpPos(1)]
            d2 == io[DumpPos(2)]
        IN  /\ Holds(Path(d2.volt), Dumped(d2.n))
            /\ Holds(Path(d1.volt), Dumped(d1.n))

\* the last dump made under the label volt
LastDump(volt) ==
    LET same == {q \in Positions("dump", Len(io)) : io[q].volt = volt}
    IN  io[CHOOSE q \in same : \A r \in same : r <= q]

\* the j-th event of the log holds the samples of the scope's j-th acquisition
InCaptureOrder ==
    \A j \in 1..Len(list_events) :
        /\ \E c \in 1..NumChannels : list_events[j][c] # None
        /\ \A c \in 1..NumChannels :
             list_events[j][c] # None =>
                 /\ Len(list_events[j][c][1]) = 2
                 /\ list_events[j][c][1][1][2] = j
                 /\ list_events[j][c][1][2][2] = j + 1

\* C6 as amended: the log is never reset (every dump serializes all events captured in
\* all steps so far, in capture order), and each file holds what the last dump made
\* under its label wrote: when the dump of step 2 is made, the file of step 1 still
\* holds the dump of step 1 unless both steps have the same label.
C6_CumulativeDump ==
    /\ Len(list_events) = CountOp("wfm", Len(io))
    /\ InCaptureOrder
    /\ \A i \in 1..Len(DumpsAt) : io[DumpsAt[i]].n = CountOp("wfm", DumpsAt[i])
    /\ \A volt \in Labels :
         IF \E q \in 1..Len(io) : io[q].op = "dump" /\ io[q].volt = volt
         THEN Holds(Path(volt), Dumped(LastDump(volt).n))
         ELSE Path(volt) \notin DOMAIN files
    /\ (Len(DumpsAt) = 2 /\ io[DumpPos(1)].volt # io[DumpPos(2)].volt) =>
         Holds(Path(io[DumpPos(1)].volt), Dumped(io[DumpPos(1)].n))

C6_Witness ==
    /\ Len(DumpsAt) = 2
    /\ volt_list = << <<"1">>, <<"2">> >>
    /\ num_events = 2
    /\ Len(list_events) = 4
    /\ files[Path(<<"1">>)] = Dumped(2)
    /\ files[Path(<<"2">>)] = Dumped(4)
    /\ Dumped(2) # Dumped(4)

RampingUp == IsSubstr(S_RAMP_UP, caen_status)
RampingDown == IsSubstr(S_RAMP_DOWN, caen_status)

\* C12: a controller in the ramp-up (ramp-down) poll loop while the power supply
\* reports RAMP UP (RAMP DOWN) is still in that loop after any step, whether or not
\* the stop signal is posted; so under a status that never clears it stays there and
\* never closes.
C12_NoStopInsidePoll ==
    /\ [][(pc = "ramp_up" /\ RampingUp) => (pc' = "ramp_up" /\ io' = io)]_vars
    /\ [][(pc = "ramp_down" /\ RampingDown) => (pc' = "ramp_down" /\ io' = io)]_vars

\* the signal is posted, the supply still ramps up, the controller polls
C12_Witness == pc = "ramp_up" /\ RampingUp /\ Posted /\ ui_pc = "done"

\* the positions in io of the waveform queries, in order
WfmsAt == SelectSeq([q \in 1..Len(io) |-> q], LAMBDA q : io[q].op = "wfm")

\* the position of the last timebase query before position q (0 if there is none)
TimebaseBefore(q) ==
    LET tb == {r \in 1..(q - 1) : io[r].op = "timebase"}
    IN  IF tb = {} THEN 0 ELSE CHOOSE r \in tb : \A x \in tb : x <= r

\* the call at position q comes where the protocol of a step allows it
InProtocolOrder(q) ==
    LET c    == io[q]
        prev == io[q - 1]
        follows(ops) == q > 1 /\ prev.op \in ops /\ prev.volt = c.volt
    IN  CASE c.op = "set"          -> /\ q = 1 \/ prev.op = "dump"
                                      /\ c.volt = volt_list[1 + Len(SelectSeq(SubSeq(io, 1, q - 1), LAMBDA x : x.op = "dump"))]
          [] c.op = "timebase"     -> follows({"set"})
          [] c.op = "wfm"          -> follows({"timebase", "wfm"})
          [] c.op = "STOPPING DAQ" -> follows({"timebase", "wfm"})
          [] c.op = "dump"         -> follows({"timebase", "wfm", "STOPPING DAQ"})
          [] c.op = "set_neutral"  -> q = 1 \/ prev.op = "dump"
          [] OTHER                 -> TRUE

\* the sample times of the j-th event are 0, d, 2d, .. for the interval d answered to
\* the last timebase query before the j-th waveform query, a query of the same step
UsesStepDt(j) ==
    LET q  == WfmsAt[j]
        tb == TimebaseBefore(q)
    IN  /\ tb > 0
        /\ io[tb].volt = io[q].volt
        /\ \A r \in tb..q : io[r].op # "set"
        /\ \A c \in 1..NumChannels :
             list_events[j][c] # None =>
                 \A i \in 1..Len(list_events[j][c][1]) :
                     list_events[j][c][1][i][1] = (i - 1) * io[tb].n

\* C13: the calls of every step come in the order set-voltage(v), timebase, waveform
\* queries, dump(v), each of set, timebase and dump once per step and under the
\* step's own label; the timebase query is made only once the status no longer says
\* RAMP UP and overwrites dt; every sample time uses the interval read in its own step.
C13_StepProtocol ==
    /\ [](/\ \A q \in 1..Len(io) : InProtocolOrder(q)
          /\ Len(WfmsAt) = Len(list_events)
          /\ \A j \in 1..Len(list_events) : UsesStepDt(j)
          /\ (pc \in {"capture", "query", "dump"} => dt = io[TimebaseBefore(Len(io) + 1)].n))
    /\ [][(pc = "ramp_up" /\ pc' # "ramp_up") => (pc' = "timebase" /\ ~RampingUp)]_vars

\* two steps that read different intervals, each with an event, both dumped
C13_Witness ==
    /\ pc = "done"
    /\ Len(DumpsAt) = 2
    /\ Len(list_events) = 2
    /\ io[TimebaseBefore(WfmsAt[1])].n = MaxDt
    /\ io[TimebaseBefore(WfmsAt[2])].n = 1
    /\ list_events[1][1][1][2][1] = MaxDt
    /\ list_events[2][1][1][2][1] = 1

\* the labels of the steps that made their dump
DumpedLabels == {io[DumpsAt[i]].volt : i \in 1..Len(DumpsAt)}

\* the number of the last step that dumped under label volt
LastStepOf(volt) ==
    CHOOSE i \in 1..Len(DumpsAt) :
        /\ io[DumpsAt[i]].volt = volt
        /\ \A k \in (i + 1)..Len(DumpsAt) : io[DumpsAt[k]].volt # volt

\* C14: a dump for label v leaves in the file {prefix}_{v}V exactly the serialization
\* of the log of that moment, whatever the file held, and touches no other file; only
\* dumps write; so at the end of a run each file holds exactly the serialization of
\* the log as it was at the last executed step with its label.
C14_Overwrite ==
    /\ [][(io' # io /\ io'[Len(io')].op = "dump") =>
            LET p == Path(io'[Len(io')].volt)
            IN  /\ DOMAIN files' = DOMAIN files \cup {p}
                /\ files'[p] = Serialize(list_events, 0)
                /\ \A q \in DOMAIN files \ {p} : files'[q] = files[q]]_vars
    /\ [][files' # files => (io' # io /\ io'[Len(io')].op = "dump")]_vars
    /\ [](pc = "done" =>
            /\ DOMAIN files = {Path(volt) : volt \in DumpedLabels}
            /\ \A volt \in DumpedLabels :
                 files[Path(volt)] =
                     Serialize(SubSeq(list_events, 1, CountOp("wfm", DumpsAt[LastStepOf(volt)])), 0))

\* a finished run of two steps with the same label: the one file holds the second
\* dump, which differs from the first
C14_Witness ==
    /\ pc = "done"
    /\ volt_list = << <<"1">>, <<"1">> >>
    /\ Len(DumpsAt) = 2
    /\ Len(list_events) = 2
    /\ DOMAIN files = {Path(<<"1">>)}
    /\ files[Path(<<"1">>)] = Serialize(list_events, 0)
    /\ files[Path(<<"1">>)] # Serialize(SubSeq(list_events, 1, 1), 0)

\* C16: the log only grows at its end and existing events never change; every waveform
\* query appends exactly one event and nothing else appends; a run in which the stop
\* signal is never posted ends with Len(volt_list) * num_events events, num_events of
\* them appended in each step.
C16_EventAccounting ==
    /\ [][IsPrefix(list_events, list_events')]_vars
    /\ [][(io' # io /\ io'[Len(io')].op = "wfm") <=> Len(list_events') = Len(list_events) + 1]_vars
    /\ [][Len(list_events') \in {Len(list_events), Len(list_events) + 1}]_vars
    /\ []((pc = "done" /\ ~Posted) =>
            /\ Len(list_events) = Len(volt_list) * num_events
            /\ Len(DumpsAt) = Len(volt_list)
            /\ \A i \in 1..Len(DumpsAt) : CountOp("wfm", DumpsAt[i]) = i * num_events)

C16_Witness ==
    /\ pc = "done"
    /\ ~Posted
    /\ Len(volt_list) = MaxSteps
    /\ num_events = MaxEvents
    /\ Len(list_events) = MaxSteps * MaxEvents
    /\ io[DumpsAt[1]].n = MaxEvents

\* what the controller and the devices hold: the log, dt, the sweep position, the
\* device state and the files
ControllerVars ==
    <<pc, volt_list, num_events, channels, vi, event, dt, list_events, caen_status, files, io>>

\* C17: every step of the monitor (a step that changes its position or the stop
\* queue) leaves the event log, dt, the sweep position and the device state unchanged;
\* every step that changes any of these leaves the stop queue as it is; and the queue
\* is only ever written by appending the signal.
C17_OnlySignalShared ==
    /\ [][(ui_pc' # ui_pc \/ stop_queue' # stop_queue) => UNCHANGED ControllerVars]_vars
    /\ [][Monitor => UNCHANGED ControllerVars]_vars
    /\ [][(ControllerVars' # ControllerVars) => UNCHANGED <<stop_queue, ui_pc>>]_vars
    /\ [][Controller => UNCHANGED <<stop_queue, ui_pc>>]_vars
    /\ [][stop_queue' # stop_queue => (ui_pc = "put" /\ stop_queue' = Append(stop_queue, "STOP"))]_vars

\* the signal was posted in the middle of a capture, the log not empty
C17_Witness ==
    /\ Posted
    /\ posted_at # None
    /\ posted_at[1] >= 3
    /\ io[posted_at[1]].op = "wfm"
    /\ Len(list_events) >= 1
    /\ dt = MaxDt

\* the calls made after the signal was posted that set a sweep voltage or query a
\* waveform
OverrunCalls ==
    SelectSeq(SubSeq(io, posted_at[1] + 1, Len(io)), LAMBDA c : c.op \in {"set", "wfm"})

\* C18: after the stop signal is posted the controller issues at most one more call
\* out of {set-voltage of a sweep step, waveform query}; a set-voltage issued after
\* the signal belongs to a step that captures no event.
C18_BoundedOverrun ==
    posted_at # None =>
        /\ Len(OverrunCalls) <= 1
        /\ \A q \in (posted_at[1] + 1)..Len(io) :
             io[q].op = "dump" /\ (\E r \in (posted_at[1] + 1)..q : io[r].op = "set") =>
                 io[q].n = CountOp("wfm", posted_at[1])

\* a set-voltage after the signal, its step dumped with no event although num_events
\* is not 0, the run closed
C18_Witness ==
    /\ pc = "done"
    /\ posted_at # None
    /\ Len(OverrunCalls) = 1
    /\ OverrunCalls[1].op = "set"
    /\ num_events = MaxEvents
    /\ io[Len(io) - 4].op = "dump"
    /\ io[Len(io) - 4].n = CountOp("wfm", posted_at[1])

\* C19: when every device call returns and every RAMP UP / RAMP DOWN status clears in
\* the end, the controller closes the devices and ends, for every voltage list, every
\* num_events and every timing of the stop signal, the signal never posted included.
C19_Terminates == <>(pc = "done")

\* a closed run of all steps in which the signal was never posted and the supply
\* ramped down before the close
C19_Witness ==
    /\ pc = "done"
    /\ ~Posted
    /\ ui_pc = "input"
    /\ Len(DumpsAt) = MaxSteps
    /\ ShutdownCalls = ShutdownSeq
    /\ ~RampingDown

\* the positions of the mask that are active, and the slots of an event that hold a
\* waveform (both counted from 1 here, from 0 in the program)
ActivePositions == {c \in 1..NumChannels : channels[c]}
PopulatedSlots(ev) == {c \in 1..NumChannels : ev[c] # None}

\* C20: the query holds one sub-command per active position of the mask, and with the
\* scope answering each sub-command under the marker it named, the populated slots of
\* every captured event are exactly the active positions of the mask.
C20_SlotsMatchMask ==
    /\ Len(NamedChannels(Payload(channels, 0))) = Cardinality(ActivePositions)
    /\ \A j \in 1..Len(list_events) : PopulatedSlots(list_events[j]) = ActivePositions

----------------------------------------------------------------------------
(* Properties of convert_to_vector, checked under ParseSpec *)

Called == result # NotCalled
Returned == result[1]

\* the waveform that the numeric tokens toks[from + 1 .. from + n] make
Expected(toks, from, n) == [i \in 1..n |-> <<dt * (i - 1), toks[from + i].v>>]

\* toks is: marker 1, n numbers, marker 3, n numbers
IsTwoChannel(toks) ==
    /\ Len(toks) >= 2
    /\ Len(toks) % 2 = 0
    /\ LET n == (Len(toks) - 2) \div 2
       IN  /\ toks[1] = Marker(1)
           /\ toks[n + 2] = Marker(3)
           /\ \A i \in 1..Len(toks) : i \notin {1, n + 2} => toks[i].k = "num"

\* C7: a response with a channel-1 marker and N numeric tokens, then a channel-3
\* marker and N numeric tokens, parses without an exception to a 4-slot list whose
\* slots 0 and 2 hold the N samples (dt*i, i-th voltage) in input order and whose
\* slots 1 and 3 are None.
C7_RoundTrip ==
    (Called /\ sent # None /\ IsTwoChannel(sent[1].toks)) =>
        LET toks == sent[1].toks
            n    == (Len(toks) - 2) \div 2
        IN  /\ Returned.exc = ""
            /\ Len(Returned.wfms) = NumChannels
            /\ Returned.wfms[1] = Some(Expected(toks, 1, n))
            /\ Returned.wfms[2] = None
            /\ Returned.wfms[3] = Some(Expected(toks, n + 2, n))
            /\ Returned.wfms[4] = None

C7_Witness ==
    /\ Called /\ sent # None /\ IsTwoChannel(sent[1].toks)
    /\ Len(sent[1].toks) = 6
    /\ dt = 2
    /\ sent[1].seps[2] = <<"\n">>
    /\ Returned.wfms[3] = Some(<< <<0, 12>>, <<2, 1>> >>)

\* the indices of the tokens that are not junk, ascending
KeptIdx(toks) == SelectSeq([i \in 1..Len(toks) |-> i], LAMBDA i : toks[i].k # "junk")

\* the response without its junk tokens (each dropped with the separator before it,
\* a leading one with the separator after it)
WithoutJunk(r) ==
    LET K == KeptIdx(r.toks)
    IN  [toks |-> [j \in 1..Len(K) |-> r.toks[K[j]]],
         seps |-> [j \in 1..(Len(K) - 1) |-> r.seps[K[j + 1] - 1]]]

HasJunk(toks) == \E i \in 1..Len(toks) : toks[i].k = "junk"

\* C8: a response holding non-numeric tokens without ':' ("ERR") parses without an
\* exception and to the same list as the response without those tokens.
C8_JunkIgnored ==
    (Called /\ sent # None /\ HasJunk(sent[1].toks)) =>
        LET clean == WithoutJunk(sent[1])
        IN  /\ Returned.exc = ""
            /\ Returned = convert_to_vector(Some(Render(clean.toks, clean.seps)), dt)

C8_Witness ==
    /\ Called /\ sent # None
    /\ sent[1].toks = <<Marker(1), Num(1), Junk, Num(12)>>
    /\ dt = 2
    /\ Returned.wfms[1] = Some(<< <<0, 1>>, <<2, 12>> >>)

OnlyNumbers(toks) == Len(toks) >= 1 /\ \A i \in 1..Len(toks) : toks[i].k = "num"

\* C9: a response of numeric tokens only, with no channel marker, parses without an
\* exception; the list returned is the fallback the negative index cur_channel = -1
\* makes: slots 0..2 None, slot 3 the samples in input order.
C9_NoMarkerFallback ==
    (Called /\ sent # None /\ OnlyNumbers(sent[1].toks)) =>
        /\ Returned.exc = ""
        /\ Returned.wfms =
             <<None, None, None, Some(Expected(sent[1].toks, 0, Len(sent[1].toks)))>>

C9_Witness ==
    /\ Called /\ sent # None
    /\ sent[1].toks = <<Num(12), Num(1), Num(1)>>
    /\ sent[1].seps = << <<"\n">>, <<" ">> >>
    /\ dt = 2
    /\ Returned.wfms[4] = Some(<< <<0, 12>>, <<2, 1>>, <<4, 1>> >>)

\* C10: for values None or "" the list returned has None in all four slots.
C10_EmptyAllAbsent ==
    (Called /\ (values = None \/ values = Some(<<>>))) =>
        /\ Returned.exc = ""
        /\ Returned.wfms = <<None, None, None, None>>

\* the position of the first marker after position m (Len(toks) + 1 if there is none)
NextMarker(toks, m) ==
    LET later == {i \in (m + 1)..Len(toks) : toks[i].k = "marker"}
    IN  IF later = {} THEN Len(toks) + 1 ELSE CHOOSE i \in later : \A x \in later : i <= x

\* the waveform that the numeric tokens between the marker at m and the next marker
\* make, indexed from 0
Region(toks, m) ==
    LET nums == SelectSeq(SubSeq(toks, m + 1, NextMarker(toks, m) - 1), LAMBDA t : t.k = "num")
    IN  [i \in 1..Len(nums) |-> <<dt * (i - 1), nums[i].v>>]

\* C15: for every response, the waveform of each channel named by a marker holds
\* exactly the numeric tokens that follow its (last) marker up to the next marker,
\* the k-th with time dt*(k-1), line breaks making no difference.
C15_OwnMarkerRegion ==
    (Called /\ sent # None /\ Returned.exc = "") =>
        LET toks == sent[1].toks
        IN  \A m \in 1..Len(toks) :
                (/\ toks[m].k = "marker"
                 /\ \A x \in (m + 1)..Len(toks) : toks[x] # toks[m]) =>
                    Returned.wfms[toks[m].n] = Some(Region(toks, m))

====
